---- MODULE Spec2Model ----
(***************************************************************************)
(* Model of the session cache of pkg/sessions.go: the key space built by   *)
(* NewSessionCache, the bulk operations Refresh and Clear, and the seven   *)
(* get-or-build accessors (GetSTS, GetCloudwatch, GetTagging, GetASG,      *)
(* GetEC2, GetDMS, GetAPIGateway) with the mutex they take while the cache *)
(* is not refreshed.                                                       *)
(*                                                                         *)
(* Refresh and Clear run on one control thread; accessors run on worker    *)
(* threads.  The comment above Clear ("Refresh and Clear help to avoid     *)
(* using lock primitives by asserting that there are no ongoing writes to  *)
(* the map") is the calling convention modelled here: a Refresh or Clear   *)
(* starts only when no accessor is in progress and an accessor starts only *)
(* when no Refresh or Clear is in progress.  Accessors overlap each other  *)
(* freely.                                                                 *)
(*                                                                         *)
(* Spec is the cache built from Config under that convention.  TopoSpec is *)
(* NewSessionCache alone, applied to every configuration of ConfigArgs.    *)
(* FairSpec is a burst of concurrent accessor calls on a cache that was    *)
(* never refreshed, with the fairness of the Go scheduler and mutex.       *)
(***************************************************************************)
EXTENDS Integers, Sequences, FiniteSets, TLC

\* ---------------------------------------------------------------- bounds
\* number of worker threads calling accessors
NumThreads == 2
\* number of Refresh/Clear calls in one behaviour
MaxCtl == 3
\* number of accessor calls in one behaviour
MaxCalls == 2
\* number of jobs (discovery and static together) of a configuration
MaxJobs == 2

Threads == 1..NumThreads

\* ---------------------------------------------------------------- values
\* mu unlocked
NoThread == 0
\* session == nil
NoSession == 0

\* The arguments accessors are called with: rX is the role of the jobs
\* below, rU a role that no job names; use1 and euw1 are the regions of the
\* jobs, apse2 a region that no job names.
RoleArgs == {"rX", "rU"}
RegionArgs == {"use1", "euw1", "apse2"}
\* the (region, role) arguments of the per-region accessors: the two pairs
\* of the jobs below, a pair with the unknown role and a pair with the
\* unknown region
PairArgs == {<<"use1", "rX">>, <<"euw1", "rX">>, <<"use1", "rU">>, <<"apse2", "rX">>}

\* The job configuration handed to NewSessionCache: one discovery job and
\* one static job.  (rX, use1) is named by both, (rX, euw1) only by the
\* static job.
Config ==
  [ discovery |-> << [roles |-> <<"rX">>, regions |-> <<"use1">>] >>,
    static    |-> << [roles |-> <<"rX">>, regions |-> <<"use1", "euw1">>] >> ]

\* the six per-region slots of a clientCache, and the five that Refresh
\* skips for an onlyStatic entry
Kinds == {"cloudwatch", "tagging", "asg", "ec2", "dms", "apiGateway"}
DiscoveryKinds == Kinds \ {"cloudwatch"}

\* a nil interface value in a slot
Nil == [kind |-> "nil", role |-> "", region |-> "", sess |-> NoSession, id |-> NoThread]

\* A client handle.  The builders are configuration assembly around the
\* SDK constructor: the handle records what it was built for and the
\* session it was given.  Its id stands for pointer identity: the thread
\* that made the builder call (NoThread for the control thread).  A thread
\* builds a slot's client at most once between two Refresh/Clear calls.
NewClient(kind, sess, region, role, id) ==
  [kind |-> kind, role |-> role, region |-> region, sess |-> sess, id |-> id]

createStsSession(sess, role, id) == NewClient("sts", sess, "", role, id)
createCloudwatchSession(sess, region, role, id) == NewClient("cloudwatch", sess, region, role, id)
createTagSession(sess, region, role, id) == NewClient("tagging", sess, region, role, id)
createASGSession(sess, region, role, id) == NewClient("asg", sess, region, role, id)
createEC2Session(sess, region, role, id) == NewClient("ec2", sess, region, role, id)
createDMSSession(sess, region, role, id) == NewClient("dms", sess, region, role, id)
createAPIGatewaySession(sess, region, role, id) == NewClient("apiGateway", sess, region, role, id)

\* the builder an accessor or Refresh calls for a slot of the given kind
createSession(kind, sess, region, role, id) ==
  CASE kind = "cloudwatch" -> createCloudwatchSession(sess, region, role, id)
    [] kind = "tagging"    -> createTagSession(sess, region, role, id)
    [] kind = "asg"        -> createASGSession(sess, region, role, id)
    [] kind = "ec2"        -> createEC2Session(sess, region, role, id)
    [] kind = "dms"        -> createDMSSession(sess, region, role, id)
    [] kind = "apiGateway" -> createAPIGatewaySession(sess, region, role, id)

\* &clientCache{onlyStatic: b}
clientCache(b) ==
  [onlyStatic |-> b, cloudwatch |-> Nil, tagging |-> Nil, asg |-> Nil,
   ec2 |-> Nil, dms |-> Nil, apiGateway |-> Nil]

\* ------------------------------------------------------ NewSessionCache
EmptyMap == [x \in {} |-> Nil]

\* variant of the inserts below: the role's region map is made anew for
\* every job that names the role
EnsureRoleReset(c, role) ==
  [ sts     |-> IF role \in DOMAIN c.sts THEN c.sts ELSE (role :> Nil) @@ c.sts,
    clients |-> (role :> EmptyMap) @@ c.clients ]

\* stscache/roleCache after the "if _, ok := ...; !ok" inserts for a role
EnsureRole(c, role) ==
  [ sts     |-> IF role \in DOMAIN c.sts THEN c.sts ELSE (role :> Nil) @@ c.sts,
    clients |-> IF role \in DOMAIN c.clients THEN c.clients
                ELSE (role :> EmptyMap) @@ c.clients ]

\* inner loop of a discovery job: roleCache[role][region] = &clientCache{}
RECURSIVE DiscoveryRegions(_, _, _)
DiscoveryRegions(m, regions, i) ==
  IF i > Len(regions) THEN m
  ELSE DiscoveryRegions((regions[i] :> clientCache(FALSE)) @@ m, regions, i + 1)

\* variant of the loop below: a static job writes its entry over one that
\* exists
RECURSIVE StaticRegionsOverwrite(_, _, _)
StaticRegionsOverwrite(m, regions, i) ==
  IF i > Len(regions) THEN m
  ELSE StaticRegionsOverwrite((regions[i] :> clientCache(TRUE)) @@ m, regions, i + 1)

\* inner loop of a static job: only write a region that does not exist
RECURSIVE StaticRegions(_, _, _)
StaticRegions(m, regions, i) ==
  IF i > Len(regions) THEN m
  ELSE StaticRegions(IF regions[i] \in DOMAIN m THEN m
                     ELSE (regions[i] :> clientCache(TRUE)) @@ m,
                     regions, i + 1)

\* loop over the roles of one job
RECURSIVE JobRoles(_, _, _, _)
JobRoles(c, job, isStatic, i) ==
  IF i > Len(job.roles) THEN c
  ELSE LET role == job.roles[i]
           c1 == EnsureRole(c, role)
           m  == IF isStatic THEN StaticRegions(c1.clients[role], job.regions, 1)
                 ELSE DiscoveryRegions(c1.clients[role], job.regions, 1)
           c2 == [c1 EXCEPT !.clients = (role :> m) @@ c1.clients]
       IN JobRoles(c2, job, isStatic, i + 1)

\* loop over a job list
RECURSIVE Jobs(_, _, _, _)
Jobs(c, jobs, isStatic, i) ==
  IF i > Len(jobs) THEN c
  ELSE Jobs(JobRoles(c, jobs[i], isStatic, 1), jobs, isStatic, i + 1)

\* the two maps NewSessionCache returns: discovery jobs first, then static
NewSessionCache(config) ==
  Jobs(Jobs([sts |-> EmptyMap, clients |-> EmptyMap], config.discovery, FALSE, 1),
       config.static, TRUE, 1)

\* ---------------------------------------------------------------- state
VARIABLES
  session,    \* s.session: NoSession or the handle of createAWSSession
  stscache,   \* s.stscache: Role -> sts client or Nil
  clients,    \* s.clients: Role -> Region -> clientCache
  cleared,    \* s.cleared
  refreshed,  \* s.refreshed
  mu,         \* s.mu: the thread holding the mutex, or NoThread
  ctl,        \* control thread: position inside Refresh or Clear
  w,          \* worker threads: position inside an accessor, its arguments and result
  nsessions,  \* number of createAWSSession calls so far
  nctl,       \* number of Refresh/Clear calls so far
  op,         \* the Refresh/Clear call started last: "none", "Refresh" or "Clear"
  ncalls,     \* number of accessor calls so far
  config      \* the ScrapeConf NewSessionCache is called with

vars == <<session, stscache, clients, cleared, refreshed, mu, ctl, w,
          nsessions, nctl, op, ncalls, config>>

cache == <<session, stscache, clients, cleared, refreshed>>

IdleWorker ==
  [pc |-> "idle", kind |-> "none", role |-> "", region |-> "",
   held |-> FALSE, ret |-> Nil, outcome |-> "none"]

\* The result of an accessor call is kept in the worker's record until the
\* thread's next call or the next Refresh or Clear call: results of an
\* earlier phase of the cache are not compared with later ones.
ForgetResults(ws) == [t \in DOMAIN ws |-> IdleWorker]

Init ==
  /\ config = Config
  /\ session = NoSession
  /\ stscache = NewSessionCache(config).sts
  /\ clients = NewSessionCache(config).clients
  /\ cleared = FALSE
  /\ refreshed = FALSE
  /\ mu = NoThread
  /\ ctl = "idle"
  /\ w = [t \in Threads |-> IdleWorker]
  /\ nsessions = 0
  /\ nctl = 0
  /\ op = "none"
  /\ ncalls = 0

WorkersIdle == \A t \in Threads : w[t].pc = "idle"
CtlIdle == ctl = "idle"

\* ------------------------------------------------------------- builders
\* createAWSSession returns a new session handle on every call
createAWSSession(n) == n + 1

\* variant of the test below: Refresh constructs a session on every rebuild
CreatesSessionAlways(sess) == TRUE

\* if s.session == nil: sessions really only need to be constructed once
CreatesSession(sess) == sess = NoSession

\* variant of the loop below: a slot that holds a client is left alone
RefreshStsLoopKeep(sts, sess, id) ==
  [role \in DOMAIN sts |->
     IF sts[role] # Nil THEN sts[role] ELSE createStsSession(sess, role, id)]

\* the body of the stscache loop of Refresh: every role gets a new client
RefreshStsLoop(sts, sess, id) ==
  [role \in DOMAIN sts |-> createStsSession(sess, role, id)]

\* the body of the clients loop of Refresh for one entry: cloudwatch
\* always, the other five unless the entry is onlyStatic
RefreshEntry(e, sess, region, role, id) ==
  IF e.onlyStatic
  THEN [e EXCEPT !.cloudwatch = createCloudwatchSession(sess, region, role, id)]
  ELSE [onlyStatic |-> e.onlyStatic,
        cloudwatch |-> createCloudwatchSession(sess, region, role, id),
        tagging    |-> createTagSession(sess, region, role, id),
        asg        |-> createASGSession(sess, region, role, id),
        ec2        |-> createEC2Session(sess, region, role, id),
        dms        |-> createDMSSession(sess, region, role, id),
        apiGateway |-> createAPIGatewaySession(sess, region, role, id)]

RefreshClientsLoop(cl, sess, id) ==
  [role \in DOMAIN cl |->
     [region \in DOMAIN cl[role] |-> RefreshEntry(cl[role][region], sess, region, role, id)]]

\* the body of the clients loop of Clear for one entry
ClearEntry(e) ==
  [e EXCEPT !.cloudwatch = Nil, !.tagging = Nil, !.asg = Nil,
            !.ec2 = Nil, !.dms = Nil, !.apiGateway = Nil]

ClearStsLoop(sts) == [role \in DOMAIN sts |-> Nil]

ClearClientsLoop(cl) ==
  [role \in DOMAIN cl |-> [region \in DOMAIN cl[role] |-> ClearEntry(cl[role][region])]]

\* ---------------------------------------------------------------- Clear
\* if s.cleared { return }
ClearCall ==
  /\ CtlIdle /\ WorkersIdle
  /\ nctl < MaxCtl
  /\ nctl' = nctl + 1
  /\ op' = "Clear"
  /\ w' = ForgetResults(w)
  /\ ctl' = IF cleared THEN "idle" ELSE "ClearSts"
  /\ UNCHANGED <<session, stscache, clients, cleared, refreshed, mu,
                 nsessions, ncalls, config>>

\* for role := range s.stscache { s.stscache[role] = nil }
ClearSts ==
  /\ ctl = "ClearSts"
  /\ stscache' = ClearStsLoop(stscache)
  /\ ctl' = "ClearClients"
  /\ UNCHANGED <<session, clients, cleared, refreshed, mu, w,
                 nsessions, nctl, op, ncalls, config>>

\* for role, regions := range s.clients { ... six slots = nil }
ClearClients ==
  /\ ctl = "ClearClients"
  /\ clients' = ClearClientsLoop(clients)
  /\ ctl' = "ClearSetCleared"
  /\ UNCHANGED <<session, stscache, cleared, refreshed, mu, w,
                 nsessions, nctl, op, ncalls, config>>

\* s.cleared = true
ClearSetCleared ==
  /\ ctl = "ClearSetCleared"
  /\ cleared' = TRUE
  /\ ctl' = "ClearSetRefreshed"
  /\ UNCHANGED <<session, stscache, clients, refreshed, mu, w,
                 nsessions, nctl, op, ncalls, config>>

\* variant of the step below: Clear returns without lowering the flag
ClearSetRefreshedKeep ==
  /\ ctl = "ClearSetRefreshed"
  /\ ctl' = "idle"
  /\ UNCHANGED <<session, stscache, clients, cleared, refreshed, mu, w,
                 nsessions, nctl, op, ncalls, config>>

\* s.refreshed = false; return
ClearSetRefreshed ==
  /\ ctl = "ClearSetRefreshed"
  /\ refreshed' = FALSE
  /\ ctl' = "idle"
  /\ UNCHANGED <<session, stscache, clients, cleared, mu, w,
                 nsessions, nctl, op, ncalls, config>>

Clear == ClearCall \/ ClearSts \/ ClearClients \/ ClearSetCleared \/ ClearSetRefreshed

\* -------------------------------------------------------------- Refresh
\* if s.refreshed { return }; if s.session == nil { s.session = createAWSSession(...) }
RefreshCall ==
  /\ CtlIdle /\ WorkersIdle
  /\ nctl < MaxCtl
  /\ nctl' = nctl + 1
  /\ op' = "Refresh"
  /\ w' = ForgetResults(w)
  /\ IF refreshed
     THEN /\ ctl' = "idle"
          /\ UNCHANGED <<session, nsessions>>
     ELSE /\ ctl' = "RefreshSts"
          /\ IF CreatesSession(session)
             THEN /\ session' = createAWSSession(nsessions)
                  /\ nsessions' = nsessions + 1
             ELSE UNCHANGED <<session, nsessions>>
  /\ UNCHANGED <<stscache, clients, cleared, refreshed, mu, ncalls, config>>

\* for role := range s.stscache { s.stscache[role] = createStsSession(...) }
RefreshSts ==
  /\ ctl = "RefreshSts"
  /\ stscache' = RefreshStsLoop(stscache, session, NoThread)
  /\ ctl' = "RefreshClients"
  /\ UNCHANGED <<session, clients, cleared, refreshed, mu, w,
                 nsessions, nctl, op, ncalls, config>>

\* for role, regions := range s.clients { for region := range regions { ... } }
RefreshClients ==
  /\ ctl = "RefreshClients"
  /\ clients' = RefreshClientsLoop(clients, session, NoThread)
  /\ ctl' = "RefreshSetCleared"
  /\ UNCHANGED <<session, stscache, cleared, refreshed, mu, w,
                 nsessions, nctl, op, ncalls, config>>

\* s.cleared = false
RefreshSetCleared ==
  /\ ctl = "RefreshSetCleared"
  /\ cleared' = FALSE
  /\ ctl' = "RefreshSetRefreshed"
  /\ UNCHANGED <<session, stscache, clients, refreshed, mu, w,
                 nsessions, nctl, op, ncalls, config>>

\* variant of the step below: Refresh returns without setting the flag
RefreshSetRefreshedSkip ==
  /\ ctl = "RefreshSetRefreshed"
  /\ ctl' = "idle"
  /\ UNCHANGED <<session, stscache, clients, cleared, refreshed, mu, w,
                 nsessions, nctl, op, ncalls, config>>

\* s.refreshed = true; return
RefreshSetRefreshed ==
  /\ ctl = "RefreshSetRefreshed"
  /\ refreshed' = TRUE
  /\ ctl' = "idle"
  /\ UNCHANGED <<session, stscache, clients, cleared, mu, w,
                 nsessions, nctl, op, ncalls, config>>

Refresh ==
  RefreshCall \/ RefreshSts \/ RefreshClients \/ RefreshSetCleared \/ RefreshSetRefreshed

\* ------------------------------------------------------------ accessors
\* sess, ok := s.stscache[role]            (GetSTS)
\* sess, ok := s.clients[role][*region]    (the six others; a missing role
\* yields a nil inner map, and indexing it yields ok = false)
HasRole(role) == role \in DOMAIN stscache
HasEntry(role, region) ==
  /\ role \in DOMAIN clients
  /\ region \in DOMAIN clients[role]

\* the slot an accessor call is about, Nil when the key is missing
Slot(kind, role, region) ==
  IF kind = "sts"
  THEN IF HasRole(role) THEN stscache[role] ELSE Nil
  ELSE IF HasEntry(role, region) THEN clients[role][region][kind] ELSE Nil

\* Worker threads that hold no result are interchangeable: of these, the
\* one with the lowest number makes the next call.
CallerOrder(t) ==
  w[t] = IdleWorker => \A u \in Threads : (u < t => w[u] # IdleWorker)

\* if !s.refreshed { s.mu.Lock(); defer s.mu.Unlock() }: the test of the flag.
\* The arguments of the call are first used by the lookup; the record of
\* the call gets them there.
AccessorEnter(t) ==
  /\ w[t].pc = "idle"
  /\ CallerOrder(t)
  /\ CtlIdle
  /\ ncalls < MaxCalls
  /\ ncalls' = ncalls + 1
  /\ w' = [w EXCEPT ![t] = [IdleWorker EXCEPT !.pc = IF refreshed THEN "lookup" ELSE "lock"]]
  /\ UNCHANGED <<session, stscache, clients, cleared, refreshed, mu, ctl,
                 nsessions, nctl, op, config>>

\* variant of the step below: Lock returns although the mutex is held
AccessorLockNoMutex(t) ==
  /\ w[t].pc = "lock"
  /\ mu' = t
  /\ w' = [w EXCEPT ![t].pc = "lookup", ![t].held = TRUE]
  /\ UNCHANGED <<session, stscache, clients, cleared, refreshed, ctl,
                 nsessions, nctl, op, ncalls, config>>

\* s.mu.Lock() returns
AccessorLock(t) ==
  /\ w[t].pc = "lock"
  /\ mu = NoThread
  /\ mu' = t
  /\ w' = [w EXCEPT ![t].pc = "lookup", ![t].held = TRUE]
  /\ UNCHANGED <<session, stscache, clients, cleared, refreshed, ctl,
                 nsessions, nctl, op, ncalls, config>>

\* variant of the definition below: the mutex is not released
UnlockLeak(t) == UNCHANGED mu

\* the deferred s.mu.Unlock(), run on return and on panic
Unlock(t) == IF w[t].held THEN mu' = NoThread ELSE UNCHANGED mu

\* if sess, ok := ...; ok && sess.<kind> != nil { return sess.<kind> }
AccessorLookup(t, kind, region, role) ==
  /\ w[t].pc = "lookup"
  /\ LET hit == Slot(kind, role, region) IN
       IF hit # Nil
       THEN /\ w' = [w EXCEPT ![t] = [pc |-> "idle", kind |-> kind, role |-> role,
                                      region |-> region, held |-> FALSE,
                                      ret |-> hit, outcome |-> "hit"]]
            /\ Unlock(t)
       ELSE /\ w' = [w EXCEPT ![t].pc = "build", ![t].kind = kind,
                              ![t].role = role, ![t].region = region]
            /\ UNCHANGED mu
  /\ UNCHANGED <<session, stscache, clients, cleared, refreshed, ctl,
                 nsessions, nctl, op, ncalls, config>>

\* the lookup of each accessor, after the test of the flag and the Lock
GetSTS(t, role) == AccessorLookup(t, "sts", "", role)
GetCloudwatch(t, region, role) == AccessorLookup(t, "cloudwatch", region, role)
GetTagging(t, region, role) == AccessorLookup(t, "tagging", region, role)
GetASG(t, region, role) == AccessorLookup(t, "asg", region, role)
GetEC2(t, region, role) == AccessorLookup(t, "ec2", region, role)
GetDMS(t, region, role) == AccessorLookup(t, "dms", region, role)
GetAPIGateway(t, region, role) == AccessorLookup(t, "apiGateway", region, role)

\* s.stscache[role] = createStsSession(s.session, role, ...)
\* A map assignment: it inserts the role when the map has no such key.
StoreSts(t) ==
  LET c == createStsSession(session, w[t].role, t) IN
    /\ stscache' = (w[t].role :> c) @@ stscache
    /\ w' = [w EXCEPT ![t].pc = "return", ![t].outcome = "built"]
    /\ UNCHANGED <<clients, mu>>

\* variant of the step below: the client is built but the slot is not written
StoreClientNoStore(t) ==
  /\ IF HasEntry(w[t].role, w[t].region)
     THEN /\ w' = [w EXCEPT ![t].pc = "return", ![t].outcome = "built"]
          /\ UNCHANGED mu
     ELSE /\ w' = [w EXCEPT ![t].pc = "idle", ![t].held = FALSE,
                            ![t].ret = Nil, ![t].outcome = "panic"]
          /\ Unlock(t)
  /\ UNCHANGED <<stscache, clients>>

\* variant of the step below: the store replaces the whole entry by a new
\* one that holds the built client only
StoreClientWholeEntry(t) ==
  LET c == createSession(w[t].kind, session, w[t].region, w[t].role, t) IN
    /\ IF HasEntry(w[t].role, w[t].region)
       THEN /\ clients' = [clients EXCEPT ![w[t].role][w[t].region] =
                             [clientCache(@.onlyStatic) EXCEPT ![w[t].kind] = c]]
            /\ w' = [w EXCEPT ![t].pc = "return", ![t].outcome = "built"]
            /\ UNCHANGED mu
       ELSE /\ clients' = clients
            /\ w' = [w EXCEPT ![t].pc = "idle", ![t].held = FALSE,
                              ![t].ret = Nil, ![t].outcome = "panic"]
            /\ Unlock(t)
    /\ UNCHANGED stscache

\* s.clients[role][*region].<kind> = create<Kind>Session(s.session, region, role, ...)
\* The builder runs first; the store then dereferences the entry pointer,
\* which is nil when the key is missing: the call panics and the deferred
\* Unlock runs.
StoreClient(t) ==
  LET c == createSession(w[t].kind, session, w[t].region, w[t].role, t) IN
    /\ IF HasEntry(w[t].role, w[t].region)
       THEN /\ clients' = [clients EXCEPT ![w[t].role][w[t].region][w[t].kind] = c]
            /\ w' = [w EXCEPT ![t].pc = "return", ![t].outcome = "built"]
            /\ UNCHANGED mu
       ELSE /\ clients' = clients
            /\ w' = [w EXCEPT ![t].pc = "idle", ![t].held = FALSE,
                              ![t].ret = Nil, ![t].outcome = "panic"]
            /\ Unlock(t)
    /\ UNCHANGED stscache

\* the miss path of an accessor: call the builder and store its result
AccessorBuild(t) ==
  /\ w[t].pc = "build"
  /\ IF w[t].kind = "sts" THEN StoreSts(t) ELSE StoreClient(t)
  /\ UNCHANGED <<session, cleared, refreshed, ctl, nsessions, nctl, op, ncalls, config>>

\* return s.stscache[role] / return s.clients[role][*region].<kind>:
\* the slot is read again, then the deferred Unlock runs
AccessorReturn(t) ==
  /\ w[t].pc = "return"
  /\ w' = [w EXCEPT ![t].pc = "idle", ![t].held = FALSE,
                    ![t].ret = Slot(w[t].kind, w[t].role, w[t].region)]
  /\ Unlock(t)
  /\ UNCHANGED <<session, stscache, clients, cleared, refreshed, ctl,
                 nsessions, nctl, op, ncalls, config>>

Accessor(t) ==
  \/ \E role \in RoleArgs : GetSTS(t, role)
  \/ \E a \in PairArgs : GetCloudwatch(t, a[1], a[2])
  \/ \E a \in PairArgs : GetTagging(t, a[1], a[2])
  \/ \E a \in PairArgs : GetASG(t, a[1], a[2])
  \/ \E a \in PairArgs : GetEC2(t, a[1], a[2])
  \/ \E a \in PairArgs : GetDMS(t, a[1], a[2])
  \/ \E a \in PairArgs : GetAPIGateway(t, a[1], a[2])
  \/ AccessorEnter(t)
  \/ AccessorLock(t)
  \/ AccessorBuild(t)
  \/ AccessorReturn(t)

Next ==
  \/ Clear
  \/ Refresh
  \/ \E t \in Threads : Accessor(t)

Spec == Init /\ [][Next]_vars

\* ------------------------------------------------------ accessor bursts
\* Concurrent accessor calls on a cache that was never refreshed (the ad
\* hoc use of the cache, every call under the mutex), with the scheduling
\* of the Go runtime.  A goroutine that can run does run; sync.Mutex hands
\* the mutex to a goroutine that keeps waiting for it (starvation mode),
\* so a waiter for which the mutex is free again and again gets it.
AccessorProgress(t) ==
  \/ \E role \in RoleArgs : GetSTS(t, role)
  \/ \E k \in Kinds : \E a \in PairArgs : AccessorLookup(t, k, a[1], a[2])
  \/ AccessorBuild(t)
  \/ AccessorReturn(t)

FairNext == \E t \in Threads : Accessor(t)

FairSpec ==
  /\ Init
  /\ [][FairNext]_vars
  /\ \A t \in Threads : SF_vars(AccessorLock(t)) /\ WF_vars(AccessorProgress(t))

\* ------------------------------------------------------------- topology
\* The constructor on its own: NewSessionCache applied to the job
\* configurations below.  A job names a list of roles and a list of
\* regions; either may be empty.
RoleLists == {<<>>, <<"rX">>, <<"rU">>, <<"rX", "rU">>}
RegionLists == {<<>>, <<"use1">>, <<"euw1">>, <<"use1", "euw1">>}
JobArgs == [roles : RoleLists, regions : RegionLists]
JobLists(n) == UNION {[1..k -> JobArgs] : k \in 0..n}
ConfigArgs ==
  UNION {{[discovery |-> dj, static |-> sj] :
            dj \in [1..d -> JobArgs], sj \in JobLists(MaxJobs - d)} :
         d \in 0..MaxJobs}

\* before the call of NewSessionCache there is no cache
TopoInit ==
  /\ config \in ConfigArgs
  /\ session = NoSession
  /\ stscache = EmptyMap
  /\ clients = EmptyMap
  /\ cleared = FALSE
  /\ refreshed = FALSE
  /\ mu = NoThread
  /\ ctl = "new"
  /\ w = [t \in Threads |-> IdleWorker]
  /\ nsessions = 0
  /\ nctl = 0
  /\ op = "none"
  /\ ncalls = 0

\* return &sessionCache{session: nil, stscache: stscache, clients: roleCache,
\*                      cleared: false, refreshed: false, ...}
\* The function has one result, the cache: it has no error result and no
\* return before this one.
NewSessionCacheCall ==
  /\ ctl = "new"
  /\ stscache' = NewSessionCache(config).sts
  /\ clients' = NewSessionCache(config).clients
  /\ session' = NoSession
  /\ cleared' = FALSE
  /\ refreshed' = FALSE
  /\ ctl' = "idle"
  /\ UNCHANGED <<mu, w, nsessions, nctl, op, ncalls, config>>

TopoNext == NewSessionCacheCall

TopoSpec == TopoInit /\ [][TopoNext]_vars

\* ============================================================ properties
\* the key space NewSessionCache declares for the configuration
KeySpace == NewSessionCache(Config)
DeclaredRoles == DOMAIN KeySpace.sts
DeclaredPairs ==
  {<<role, region>> \in RoleArgs \X RegionArgs :
     /\ role \in DOMAIN KeySpace.clients
     /\ region \in DOMAIN KeySpace.clients[role]}

\* the keys the two maps hold now
CurrentRoles == DOMAIN stscache
CurrentPairs ==
  {p \in (DOMAIN clients) \X RegionArgs : p[2] \in DOMAIN clients[p[1]]}
CurrentPairRoles == DOMAIN clients

\* the key of an accessor call is part of the declared key space
InKeySpace(kind, role, region) ==
  IF kind = "sts" THEN role \in DeclaredRoles ELSE <<role, region>> \in DeclaredPairs

AllSlotsEmpty ==
  /\ \A role \in CurrentRoles : stscache[role] = Nil
  /\ \A p \in CurrentPairs : \A k \in Kinds : clients[p[1]][p[2]][k] = Nil

\* steps of the control thread and of a worker thread
ClearReturns ==
  /\ op' = "Clear"
  /\ ctl' = "idle"
  /\ (ctl # "idle" \/ nctl' # nctl)
RefreshReturns ==
  /\ op' = "Refresh"
  /\ ctl' = "idle"
  /\ (ctl # "idle" \/ nctl' # nctl)
\* the slot of a key after the step
SlotAfter(kind, role, region) ==
  IF kind = "sts"
  THEN IF role \in DOMAIN stscache' THEN stscache'[role] ELSE Nil
  ELSE IF role \in DOMAIN clients' /\ region \in DOMAIN clients'[role]
       THEN clients'[role][region][kind] ELSE Nil

Steps(t) == w'[t].pc # w[t].pc
Returns(t) == w[t].pc # "idle" /\ w'[t].pc = "idle"
Returned(t) == w[t].pc = "idle" /\ w[t].outcome # "none"
\* a step in which an accessor or Refresh calls a builder
BuilderCalled ==
  \/ \E t \in Threads : w[t].pc = "build" /\ w'[t].pc # "build"
  \/ ctl \in {"RefreshSts", "RefreshClients"} /\ ctl' # ctl

\* ------------------------------------------------------------------- C1
\* C1: whenever a call to Clear returns, every identity slot and every
\* per-kind slot of every (role, region) pair is empty, also when the
\* Clear follows an earlier Clear with lazy accessor calls in between.
C1_ClearLeavesAllSlotsEmpty == [][ClearReturns => AllSlotsEmpty']_vars

\* ------------------------------------------------------------------- C2
\* C2: in every reachable state an entry marked onlyStatic has its
\* tagging, asg, ec2, dms and apiGateway slots empty.
C2_StaticOnlySlotsEmpty ==
  \A p \in CurrentPairs :
    clients[p[1]][p[2]].onlyStatic =>
      \A k \in DiscoveryKinds : clients[p[1]][p[2]][k] = Nil

\* ------------------------------------------------------------------- C3
\* C3: an accessor call that returns while the cache is refreshed returns
\* a non-empty client for every kind of a pair of a discovery job and for
\* cloudwatch of a static-only pair, and returns empty for the other five
\* kinds of a static-only pair.
C3_StaticReductionAfterRefresh ==
  [][\A t \in Threads :
       (/\ Returns(t)
        /\ refreshed
        /\ w'[t].kind # "sts"
        /\ <<w'[t].role, w'[t].region>> \in DeclaredPairs)
       => IF /\ clients[w'[t].role][w'[t].region].onlyStatic
             /\ w'[t].kind \in DiscoveryKinds
          THEN w'[t].ret = Nil
          ELSE w'[t].ret # Nil]_vars

\* ------------------------------------------------------------------- C4
\* C4: no builder call is made with an absent session handle: the session
\* exists whenever an accessor or Refresh invokes a builder.
C4_BuilderGetsSession == [][BuilderCalled => session # NoSession]_vars

\* ------------------------------------------------------------------- C5
\* C5: the session handle is constructed at most once; once it exists no
\* Refresh, Clear or accessor step replaces or resets it.
C5_SessionCreatedOnce ==
  /\ [](nsessions <= 1)
  /\ [][session # NoSession => session' = session]_vars

\* Refresh, Clear, Refresh: the third call rebuilds (cleared is still
\* true) on the session that a client built lazily after the Clear got
C5_Witness ==
  /\ op = "Refresh" /\ ctl = "RefreshSts" /\ cleared
  /\ nctl = 3
  /\ nsessions = 1
  /\ session # NoSession
  /\ \E role \in CurrentRoles :
       /\ stscache[role] # Nil
       /\ stscache[role].id # NoThread
       /\ stscache[role].sess = session

\* ------------------------------------------------------------------- C6
\* C6: in every reachable state the roles keyed in stscache and the
\* (role, region) pairs keyed in clients are those NewSessionCache built.
C6_KeySpaceFixed ==
  /\ CurrentRoles = DeclaredRoles
  /\ CurrentPairRoles = DOMAIN KeySpace.clients
  /\ CurrentPairs = DeclaredPairs

\* ------------------------------------------------------------------- C7
\* C7: an accessor call with a key outside the declared key space panics
\* and leaves the cache unchanged: it returns no client and stores none.
C7_UnknownKeyPanics ==
  [][\A t \in Threads :
       (/\ Steps(t)
        /\ w'[t].kind # "none"
        /\ ~InKeySpace(w'[t].kind, w'[t].role, w'[t].region))
       => /\ cache' = cache
          /\ Returns(t) => (w'[t].outcome = "panic" /\ w'[t].ret = Nil)]_vars

\* ------------------------------------------------------------------- C8
\* C8: an accessor call with a key of the declared key space returns a
\* non-empty client, in every phase: the client that is in the slot, which
\* the call found there or which a builder call stored there before the
\* return.
C8_DeclaredKeyGetsClient ==
  [][\A t \in Threads :
       (Steps(t) /\ InKeySpace(w'[t].kind, w'[t].role, w'[t].region)) =>
         /\ Returns(t) =>
              /\ w'[t].outcome \in {"hit", "built"}
              /\ w'[t].ret # Nil
              /\ w'[t].ret = Slot(w'[t].kind, w'[t].role, w'[t].region)
              /\ SlotAfter(w'[t].kind, w'[t].role, w'[t].region)
                   = Slot(w'[t].kind, w'[t].role, w'[t].region)
         /\ (w[t].pc = "build" /\ w'[t].pc # "build") =>
              /\ w'[t].pc = "return"
              /\ SlotAfter(w[t].kind, w[t].role, w[t].region) # Nil
              /\ SlotAfter(w[t].kind, w[t].role, w[t].region).id = t]_vars

\* after Refresh and Clear, one call built its client lazily and one got a
\* cached client
C8_Witness ==
  \E t, u \in Threads :
    /\ Returned(t) /\ w[t].outcome = "built"
    /\ InKeySpace(w[t].kind, w[t].role, w[t].region)
    /\ w[t].ret = Slot(w[t].kind, w[t].role, w[t].region)
    /\ Returned(u) /\ w[u].outcome = "hit"
    /\ InKeySpace(w[u].kind, w[u].role, w[u].region)
    /\ w[u].ret = Slot(w[u].kind, w[u].role, w[u].region)
    /\ cleared /\ ~refreshed /\ session # NoSession

\* ------------------------------------------------------------------- C9
\* C9: while refreshed is true an accessor call for a key of the key space
\* is a lock-free read: it does not wait for or hold the mutex, invokes no
\* builder and writes to no slot.
C9_RefreshedReadsOnly ==
  [][\A t \in Threads :
       (refreshed /\ Steps(t)) =>
         /\ w'[t].pc # "lock"
         /\ ~w'[t].held
         /\ mu' = mu
         /\ InKeySpace(w'[t].kind, w'[t].role, w'[t].region) =>
              /\ w'[t].pc \notin {"build", "return"}
              /\ stscache' = stscache
              /\ clients' = clients]_vars

\* ------------------------------------------------------------------ C10
\* C10: while refreshed is false and no Refresh or Clear runs, at most one
\* accessor is between its lookup and its store, and accessor calls for
\* the same key of the key space made in the same phase all return the
\* client that is in the slot, at most one of them having built it.
C10_LazyBuildOnce ==
  /\ (~refreshed /\ ctl = "idle")
       => Cardinality({t \in Threads : w[t].pc = "build"}) <= 1
  /\ \A t, u \in Threads :
       (/\ t # u
        /\ ~refreshed /\ ctl = "idle"
        /\ Returned(t)
        /\ Returned(u)
        /\ w[t].kind = w[u].kind /\ w[t].role = w[u].role /\ w[t].region = w[u].region
        /\ InKeySpace(w[t].kind, w[t].role, w[t].region))
       => /\ w[t].ret = w[u].ret
          /\ w[t].ret = Slot(w[t].kind, w[t].role, w[t].region)
          /\ w[t].ret # Nil
          /\ ~(w[t].outcome = "built" /\ w[u].outcome = "built")

\* two calls for the same empty slot in the same unrefreshed phase: one
\* built the client, the other found it
C10_Witness ==
  \E t, u \in Threads :
    /\ t # u
    /\ ~refreshed /\ ctl = "idle"
    /\ Returned(t) /\ w[t].outcome = "built"
    /\ Returned(u) /\ w[u].outcome = "hit"
    /\ w[t].kind = w[u].kind /\ w[t].role = w[u].role /\ w[t].region = w[u].region
    /\ InKeySpace(w[t].kind, w[t].role, w[t].region)
    /\ w[t].ret = w[u].ret

\* ------------------------------------------------------------------ C11
\* C11: a Refresh call made when the Refresh/Clear call before it was a
\* Refresh returns at once: it calls no builder, creates no session and
\* changes no slot and no flag.
RefreshAfterRefresh ==
  /\ op = "Refresh"
  /\ op' = "Refresh"
  /\ nctl' # nctl

C11_RefreshTwiceNoOp ==
  [][RefreshAfterRefresh =>
       /\ ctl' = "idle"
       /\ cache' = cache
       /\ nsessions' = nsessions]_vars

\* Refresh, an accessor call that built a client on the session of that
\* Refresh, then the second Refresh: it has returned and the client is
\* still in its slot
C11_Witness ==
  /\ op = "Refresh" /\ nctl = 2 /\ ctl = "idle"
  /\ refreshed
  /\ \A t \in Threads : w[t] = IdleWorker
  /\ \E p \in CurrentPairs : \E k \in Kinds :
       /\ clients[p[1]][p[2]][k] # Nil
       /\ clients[p[1]][p[2]][k].id # NoThread
       /\ clients[p[1]][p[2]][k].sess = session

\* ------------------------------------------------------------------ C12
\* C12: a Refresh that starts with refreshed false rebuilds everything:
\* when it returns, every identity slot, every pair's cloudwatch slot and
\* the five other slots of every pair that is not onlyStatic hold the
\* client of a builder call of this Refresh (also where an accessor had
\* stored a client before), refreshed is true and cleared is false.
FullRefreshStarts ==
  /\ op' = "Refresh"
  /\ nctl' # nctl
  /\ ~refreshed

FullRefreshReturns == RefreshReturns /\ ctl # "idle"

C12_RefreshRebuildsAll ==
  [][/\ FullRefreshStarts => (ctl' = "RefreshSts" /\ session' # NoSession)
     /\ FullRefreshReturns =>
          /\ refreshed' /\ ~cleared'
          /\ DOMAIN stscache' = DOMAIN stscache
          /\ \A role \in DOMAIN stscache' :
               stscache'[role] = NewClient("sts", session', "", role, NoThread)
          /\ \A role \in DOMAIN clients' : \A region \in DOMAIN clients'[role] :
               /\ clients'[role][region].cloudwatch
                    = NewClient("cloudwatch", session', region, role, NoThread)
               /\ ~clients'[role][region].onlyStatic =>
                    \A k \in DiscoveryKinds :
                      clients'[role][region][k]
                        = NewClient(k, session', region, role, NoThread)]_vars

\* a Refresh after a Clear and a lazy accessor call: its stscache loop is
\* done and its clients loop is about to overwrite the client the accessor
\* stored
C12_Witness ==
  /\ op = "Refresh" /\ ctl = "RefreshClients"
  /\ cleared /\ ~refreshed
  /\ \A role \in CurrentRoles :
       stscache[role] = NewClient("sts", session, "", role, NoThread)
  /\ \E p \in CurrentPairs :
       /\ clients[p[1]][p[2]].cloudwatch # Nil
       /\ clients[p[1]][p[2]].cloudwatch.id # NoThread

\* ------------------------------------------------------------------ C13
\* C13: in every reachable state cleared and refreshed are not both true.
C13_FlagsExclusive == ~(cleared /\ refreshed)

\* ------------------------------------------------------------------ C14
\* the roles a job list names and the (role, region) pairs it reaches
JobRoleSet(jobs) ==
  UNION {{jobs[i].roles[a] : a \in DOMAIN jobs[i].roles} : i \in DOMAIN jobs}
JobPairSet(jobs) ==
  UNION {{<<jobs[i].roles[a], jobs[i].regions[b]>> :
            a \in DOMAIN jobs[i].roles, b \in DOMAIN jobs[i].regions} :
         i \in DOMAIN jobs}

Constructed == ctl = "idle"

\* C14: in the cache NewSessionCache returns, the pairs are those some job
\* reaches, a pair is onlyStatic exactly when a static job reaches it and
\* no discovery job does, and every role some job names, with or without
\* regions, is a key of stscache.
C14_StaticOnlyIffNoDiscovery ==
  Constructed =>
    LET D == JobPairSet(config.discovery)
        S == JobPairSet(config.static)
        R == JobRoleSet(config.discovery) \cup JobRoleSet(config.static)
    IN /\ DOMAIN stscache = R
       /\ \A role \in R : stscache[role] = Nil
       /\ DOMAIN clients = R
       /\ \A role \in R :
            /\ DOMAIN clients[role] = {region \in RegionArgs : <<role, region>> \in D \cup S}
            /\ \A region \in DOMAIN clients[role] :
                 clients[role][region].onlyStatic = (<<role, region>> \in S \ D)

\* a configuration in which one pair is reached by a discovery job and by
\* a static job, another pair by the static job only
C14_Witness ==
  /\ Constructed
  /\ \E p \in JobPairSet(config.discovery) \cap JobPairSet(config.static) :
       ~clients[p[1]][p[2]].onlyStatic
  /\ \E p \in JobPairSet(config.static) \ JobPairSet(config.discovery) :
       clients[p[1]][p[2]].onlyStatic

\* ------------------------------------------------------------------ C15
\* the orderings of a list, of the roles and regions of a job, and of the
\* jobs of a job list
SeqPerms(s) ==
  {[i \in 1..Len(s) |-> s[q[i]]] :
     q \in {f \in [1..Len(s) -> 1..Len(s)] :
              \A i, j \in 1..Len(s) : f[i] = f[j] => i = j}}
JobPerms(job) ==
  {[roles |-> r, regions |-> g] : r \in SeqPerms(job.roles), g \in SeqPerms(job.regions)}
JobListPerms(jobs) ==
  UNION {{l \in [1..Len(jobs) -> UNION {JobPerms(jobs[i]) : i \in 1..Len(jobs)}] :
            \A i \in 1..Len(jobs) : l[i] \in JobPerms(q[i])} :
         q \in SeqPerms(jobs)}
ConfigPerms(c) ==
  {[discovery |-> dj, static |-> sj] :
     dj \in JobListPerms(c.discovery), sj \in JobListPerms(c.static)}

\* C15: the cache NewSessionCache returns (roles, pairs, onlyStatic marks)
\* is the one it returns for every reordering of the discovery jobs, of
\* the static jobs and of the roles and regions inside each job.
C15_OrderIndependent ==
  Constructed =>
    \A c \in ConfigPerms(config) :
      /\ NewSessionCache(c).sts = stscache
      /\ NewSessionCache(c).clients = clients

\* two different discovery jobs that share a role, one of them with two
\* roles or two regions
C15_Witness ==
  /\ Constructed
  /\ Len(config.discovery) = 2
  /\ config.discovery[1] # config.discovery[2]
  /\ JobRoleSet(<<config.discovery[1]>>) \cap JobRoleSet(<<config.discovery[2]>>) # {}
  /\ Len(config.discovery[1].roles) = 2
  /\ Len(config.discovery[1].regions) = 2
  /\ Len(config.discovery[2].regions) = 1
  /\ Cardinality(ConfigPerms(config)) > 2

\* ------------------------------------------------------------------ C16
\* a discovery job that declares no roles or no regions
Malformed(c) ==
  \E i \in DOMAIN c.discovery :
    Len(c.discovery[i].roles) = 0 \/ Len(c.discovery[i].regions) = 0

\* C16: NewSessionCache returns no cache for a configuration in which a
\* discovery job declares no roles or no regions.
C16_MalformedTopologyFails == Constructed => ~Malformed(config)

\* ------------------------------------------------------------------ C17
\* a step of Refresh or Clear that writes slots
CtlWritesSlots ==
  /\ ctl \in {"ClearSts", "ClearClients", "RefreshSts", "RefreshClients"}
  /\ ctl' # ctl

\* C17: Refresh and Clear write slots only while refreshed is false: Clear
\* lowers the flag before its first reset, Refresh raises it after its
\* last store.
C17_NoBulkWriteWhileRefreshed == [][CtlWritesSlots => ~refreshed]_vars

\* ------------------------------------------------------------------ C18
\* C18: when refreshed is true and no Refresh or Clear is running, every
\* identity slot, every cloudwatch slot and the five other slots of every
\* entry that is not onlyStatic hold a client.
C18_RefreshedMeansPopulated ==
  (refreshed /\ CtlIdle) =>
    /\ \A role \in CurrentRoles : stscache[role] # Nil
    /\ \A p \in CurrentPairs :
         /\ clients[p[1]][p[2]].cloudwatch # Nil
         /\ ~clients[p[1]][p[2]].onlyStatic =>
              \A k \in DiscoveryKinds : clients[p[1]][p[2]][k] # Nil

\* a Refresh after a Clear, then an accessor call that stored a client
\* while the cache was refreshed
C18_Witness ==
  /\ refreshed /\ CtlIdle
  /\ nctl >= 2
  /\ \E t \in Threads : Returned(t) /\ w[t].outcome = "built"

\* ------------------------------------------------------------------ C19
\* C19: a step of an accessor call for a key of the key space changes
\* neither cleared nor refreshed nor any slot but the slot of its key, and
\* adds or removes no key.
C19_AccessorFrame ==
  [][\A t \in Threads :
       (Steps(t) /\ InKeySpace(w'[t].kind, w'[t].role, w'[t].region)) =>
         /\ cleared' = cleared
         /\ refreshed' = refreshed
         /\ IF w'[t].kind = "sts"
            THEN /\ clients' = clients
                 /\ stscache' = [stscache EXCEPT ![w'[t].role] = stscache'[w'[t].role]]
            ELSE /\ stscache' = stscache
                 /\ clients' = [clients EXCEPT ![w'[t].role][w'[t].region][w'[t].kind] =
                                  clients'[w'[t].role][w'[t].region][w'[t].kind]]]_vars

\* after a Clear, two lazy builds for different keys have returned: each
\* client is in its slot and the cache is still cleared and not refreshed
C19_Witness ==
  /\ cleared /\ ~refreshed /\ CtlIdle
  /\ \E t, u \in Threads :
       /\ t # u
       /\ Returned(t) /\ w[t].outcome = "built"
       /\ Returned(u) /\ w[u].outcome = "built"
       /\ InKeySpace(w[t].kind, w[t].role, w[t].region)
       /\ InKeySpace(w[u].kind, w[u].role, w[u].region)
       /\ w[t].ret = Slot(w[t].kind, w[t].role, w[t].region)
       /\ w[u].ret = Slot(w[u].kind, w[u].role, w[u].region)
       /\ w[t].ret # w[u].ret

\* ------------------------------------------------------------------ C20
\* the mutex is held by the accessor call that locked it, and by no thread
\* that is not inside an accessor call
LockHeldByCaller ==
  /\ mu # NoThread => (w[mu].held /\ w[mu].pc \in {"lookup", "build", "return"})
  /\ \A t \in Threads : w[t].held => mu = t
  /\ WorkersIdle => mu = NoThread

\* C20: the mutex is held only by an accessor call in progress and is free
\* again when the call has ended, by return or by panic; under fair
\* scheduling every accessor call that waits for the mutex gets it and
\* ends.
C20_LockReleasedAndAcquired ==
  /\ []LockHeldByCaller
  /\ \A t \in Threads : (w[t].pc = "lock") ~> (w[t].pc = "idle")

\* one call waits for the mutex while the call that holds it is about to
\* panic on a key outside the key space
C20_Witness ==
  \E t, u \in Threads :
    /\ t # u
    /\ w[t].pc = "lock"
    /\ mu = u
    /\ w[u].pc = "build"
    /\ ~InKeySpace(w[u].kind, w[u].role, w[u].region)
    /\ w[u].kind # "sts"

====
